---- MODULE Spec2Model ----
(***************************************************************************)
(* Model of the 2D rendering core of good-web-game:                        *)
(*   src/src/graphics/context.rs  (GraphicsContext)                        *)
(*   src/src/graphics/image.rs    (Image, param_to_instance_transform)     *)
(*                                                                         *)
(* Numbers.  The source computes in f32.  The model computes in exact      *)
(* rationals <<n, d>> (d > 0, lowest terms).  All inputs are small dyadic  *)
(* or small integer values, and the rotation angles are whole quarter      *)
(* turns whose sine and cosine are taken as exactly 0, 1, -1.              *)
(***************************************************************************)
EXTENDS Integers, Sequences, FiniteSets, TLC

VARIABLES
    screen_rect,    \* GraphicsContext.screen_rect
    projection,     \* GraphicsContext.projection
    fonts_cache,    \* GraphicsContext.fonts_cache
    ctx_pipelines,  \* GraphicsContext.{sprite,mesh,image}_pipeline (GPU ids)
    nShaders,       \* GPU: number of Shader objects created so far
    nPipelines,     \* GPU: number of Pipeline objects created so far
    nBuffers,       \* GPU: number of Buffer objects created so far
    images,         \* the Image values alive, in order of construction
    emitted,        \* GPU: the commands the most recent call issued, in order
    gpu,            \* GPU: how many commands of each kind it has received
    nDraws,         \* history: number of Image::draw calls that returned
    nLoads,         \* history: number of load_font calls that returned Ok
    result,         \* the outcome of the most recent call
    panicked,       \* TRUE once a call has panicked
    pcSet,          \* set_filter thread: position inside set_filter
    argSet,         \* set_filter thread: the filter argument in flight
    pcDraw,         \* render thread: position inside draw, and its locals
    tparam,         \* pure-function harness: the DrawParam under test
    tdims,          \* pure-function harness: <<width, height>> under test
    tresult         \* pure-function harness: the matrix computed

vars == <<screen_rect, projection, fonts_cache, ctx_pipelines, nShaders,
          nPipelines, nBuffers, images, emitted, gpu, nDraws, nLoads, result,
          panicked,
          pcSet, argSet, pcDraw, tparam, tdims, tresult>>

ctxVars == <<screen_rect, projection, fonts_cache, ctx_pipelines, nLoads>>
gpuVars == <<nShaders, nPipelines, nBuffers, gpu, nDraws>>
concVars == <<pcSet, argSet, pcDraw>>
pureVars == <<tparam, tdims, tresult>>

----------------------------------------------------------------------------
(* Bounds of the model.                                                    *)

MaxImages == 1
MaxDraws == 2
MaxFonts == 3
MaxDim == 2
MaxExtent == 3
MaxOrigin == 2

----------------------------------------------------------------------------
(* Exact rational arithmetic standing in for f32.                          *)

Abs(a) == IF a < 0 THEN -a ELSE a

RECURSIVE GCD(_, _)
GCD(a, b) == IF b = 0 THEN a ELSE GCD(b, a % b)

Frac(n, d) ==
    LET s == IF d < 0 THEN -1 ELSE 1
        g == GCD(Abs(n), Abs(d))
    IN  <<(s * n) \div g, (s * d) \div g>>

R(n) == <<n, 1>>
Half == <<1, 2>>

RAdd(a, b) == Frac(a[1] * b[2] + b[1] * a[2], a[2] * b[2])
RNeg(a) == <<-a[1], a[2]>>
RSub(a, b) == RAdd(a, RNeg(b))
RMul(a, b) == Frac(a[1] * b[1], a[2] * b[2])
RDiv(a, b) == Frac(a[1] * b[2], a[2] * b[1])

----------------------------------------------------------------------------
(* cgmath::Matrix4 and the constructors the source uses.  A matrix is      *)
(* <<row1, row2, row3, row4>>; M[r][c] is row r, column c.                 *)

Matrix4One ==
    << <<R(1), R(0), R(0), R(0)>>,
       <<R(0), R(1), R(0), R(0)>>,
       <<R(0), R(0), R(1), R(0)>>,
       <<R(0), R(0), R(0), R(1)>> >>

from_nonuniform_scale(x, y, z) ==
    << <<x, R(0), R(0), R(0)>>,
       <<R(0), y, R(0), R(0)>>,
       <<R(0), R(0), z, R(0)>>,
       <<R(0), R(0), R(0), R(1)>> >>

from_translation(x, y, z) ==
    << <<R(1), R(0), R(0), x>>,
       <<R(0), R(1), R(0), y>>,
       <<R(0), R(0), R(1), z>>,
       <<R(0), R(0), R(0), R(1)>> >>

\* Cosine and sine of q quarter turns (q * pi/2 radians).
CosQ(q) == CASE q % 4 = 0 -> R(1) [] q % 4 = 1 -> R(0)
             [] q % 4 = 2 -> R(-1) [] OTHER -> R(0)
SinQ(q) == CASE q % 4 = 0 -> R(0) [] q % 4 = 1 -> R(1)
             [] q % 4 = 2 -> R(0) [] OTHER -> R(-1)

from_angle_z(q) ==
    << <<CosQ(q), RNeg(SinQ(q)), R(0), R(0)>>,
       <<SinQ(q), CosQ(q), R(0), R(0)>>,
       <<R(0), R(0), R(1), R(0)>>,
       <<R(0), R(0), R(0), R(1)>> >>

\* The operands are bound to their values first, so that a product of
\* products evaluates each factor once.
MatMul(A, B) ==
    LET Product(a, b) ==
            [r \in 1..4 |->
                [c \in 1..4 |->
                    RAdd(RAdd(RMul(a[r][1], b[1][c]), RMul(a[r][2], b[2][c])),
                         RAdd(RMul(a[r][3], b[3][c]), RMul(a[r][4], b[4][c])))]]
    IN  CHOOSE m \in {Product(a, b) : a \in {A}, b \in {B}} : TRUE

\* M * vec4(x, y, 0, 1), as the vertex shaders do with `position`.
Apply(M, x, y) ==
    [r \in 1..4 |->
        RAdd(RAdd(RMul(M[r][1], x), RMul(M[r][2], y)), M[r][4])]

\* cgmath::ortho(left, right, bottom, top, near, far)
ortho(left, right, bottom, top, near, far) ==
    LET c0r0 == RDiv(R(2), RSub(right, left))
        c1r1 == RDiv(R(2), RSub(top, bottom))
        c2r2 == RDiv(R(-2), RSub(far, near))
        c3r0 == RNeg(RDiv(RAdd(right, left), RSub(right, left)))
        c3r1 == RNeg(RDiv(RAdd(top, bottom), RSub(top, bottom)))
        c3r2 == RNeg(RDiv(RAdd(far, near), RSub(far, near)))
    IN  << <<c0r0, R(0), R(0), c3r0>>,
           <<R(0), c1r1, R(0), c3r1>>,
           <<R(0), R(0), c2r2, c3r2>>,
           <<R(0), R(0), R(0), R(1)>> >>

----------------------------------------------------------------------------
(* Rect and DrawParam.                                                     *)

Rect(x, y, w, h) == [x |-> x, y |-> y, w |-> w, h |-> h]

DrawParam(dest, src, scale, rotation, offset, color) ==
    [dest |-> dest, src |-> src, scale |-> scale, rotation |-> rotation,
     offset |-> offset, color |-> color]

White == <<R(1), R(1), R(1), R(1)>>
FullSrc == Rect(R(0), R(0), R(1), R(1))

----------------------------------------------------------------------------
(* The Instance Transform Builder.                                         *)

param_to_instance_transform_unscaled_offset(param, width, height) ==
    LET real_x == RMul(param.src.w, R(width))
        real_y == RMul(param.src.h, R(height))
        size_x == RMul(real_x, param.scale[1])
        size_y == RMul(real_y, param.scale[2])
        size == from_nonuniform_scale(size_x, size_y, R(0))
        dest_x == RSub(param.dest[1], RMul(real_x, param.offset[1]))
        dest_y == RSub(param.dest[2], RMul(real_y, param.offset[2]))
        pos == from_translation(RAdd(dest_x, RMul(size_x, Half)),
                                RAdd(dest_y, RMul(size_y, Half)), R(0))
        rot == from_angle_z(param.rotation)
        pos0 == from_translation(RNeg(RMul(size_x, Half)),
                                 RNeg(RMul(size_y, Half)), R(0))
    IN  MatMul(MatMul(MatMul(pos, rot), pos0), size)

param_to_instance_transform_rot_at_origin(param, width, height) ==
    LET real_x == RMul(param.src.w, R(width))
        real_y == RMul(param.src.h, R(height))
        size_x == RMul(real_x, param.scale[1])
        size_y == RMul(real_y, param.scale[2])
        size == from_nonuniform_scale(size_x, size_y, R(0))
        dest_x == RSub(param.dest[1],
                       RMul(RMul(real_x, param.offset[1]), param.scale[1]))
        dest_y == RSub(param.dest[2],
                       RMul(RMul(real_y, param.offset[2]), param.scale[2]))
        pos == from_translation(RAdd(dest_x, RMul(size_x, Half)),
                                RAdd(dest_y, RMul(size_y, Half)), R(0))
        rot == from_angle_z(param.rotation)
        pos0 == from_translation(RNeg(RMul(size_x, Half)),
                                 RNeg(RMul(size_y, Half)), R(0))
    IN  MatMul(MatMul(MatMul(pos, pos0), rot), size)

param_to_instance_transform(param, width, height) ==
    LET real_x == RMul(param.src.w, R(width))
        real_y == RMul(param.src.h, R(height))
        size_x == RMul(real_x, param.scale[1])
        size_y == RMul(real_y, param.scale[2])
        size == from_nonuniform_scale(size_x, size_y, R(0))
        dest_x == RSub(param.dest[1],
                       RMul(RMul(real_x, param.offset[1]), param.scale[1]))
        dest_y == RSub(param.dest[2],
                       RMul(RMul(real_y, param.offset[2]), param.scale[2]))
        pos == from_translation(RAdd(dest_x, RMul(size_x, Half)),
                                RAdd(dest_y, RMul(size_y, Half)), R(0))
        rot == from_angle_z(param.rotation)
        pos0 == from_translation(RNeg(RMul(size_x, Half)),
                                 RNeg(RMul(size_y, Half)), R(0))
    IN  MatMul(MatMul(MatMul(pos, rot), pos0), size)

----------------------------------------------------------------------------
(* External collaborators: the byte streams handed to the decoders.        *)

Linear == "Linear"
Nearest == "Nearest"
FilterMode == {Linear, Nearest}

\* Font byte buffers; FontTexture::new fails on the malformed one.
FontData == {"fontA", "fontB", "garbage"}
FontSizes == {16, 32}
FontDecodes(font_data) == font_data # "garbage"
FontTexture(font_data, font_size) == [data |-> font_data, size |-> font_size]
DefaultFont == FontTexture("DejaVuSerif", 70)

\* Image byte streams; image::load_from_memory fails on the malformed one.
ImageBytes == {"red2x2", "junk"}
ImageDecodes(bytes) == bytes # "junk"
DecodedDims(bytes) == <<2, 2>>

\* Paths given to Image::new; filesystem::open fails on the missing one.
Paths == {"red.png", "junk.png", "missing.png"}
FileExists(path) == path # "missing.png"
FileBytes(path) == IF path = "red.png" THEN "red2x2" ELSE "junk"

RawDims == {<<1, 2>>}

\* The DrawParams and screen rectangles the state machine is driven with.
PlainParam ==
    DrawParam(<<R(10), R(10)>>, FullSrc, <<R(1), R(1)>>, 0,
              <<R(0), R(0)>>, White)

DrawParams ==
    { PlainParam,
      DrawParam(<<R(3), R(-1)>>, Rect(R(0), Half, Half, Half),
                <<R(2), Half>>, 1, <<Half, Half>>,
                <<R(1), R(0), R(0), Half>>) }

ScreenRects == { Rect(R(0), R(0), R(4), R(2)) }

NoArgs == [none |-> TRUE]
Ok(op, val, args) ==
    [op |-> op, status |-> "ok", val |-> val, err |-> "none", args |-> args]
Err(op, err, args) ==
    [op |-> op, status |-> "err", val |-> -1, err |-> err, args |-> args]
Panic(op, args) ==
    [op |-> op, status |-> "panic", val |-> -1, err |-> "none", args |-> args]
Running(op, val, args) ==
    [op |-> op, status |-> "running", val |-> val, err |-> "none",
     args |-> args]

----------------------------------------------------------------------------
(* GraphicsContext::new: the state after construction.                     *)

GpuIdle ==
    [buffer_updates |-> 0, passes_begun |-> 0, passes_ended |-> 0,
     clears |-> 0, draw_calls |-> 0]

GraphicsContext_new ==
    /\ projection = Matrix4One
    /\ screen_rect = Rect(R(-1), R(-1), R(2), R(2))
    /\ nShaders = 3
    /\ nPipelines = 3
    /\ ctx_pipelines = [sprite |-> 1, image |-> 2, mesh |-> 3]
    /\ fonts_cache = <<DefaultFont>>
    /\ nLoads = 0

\* No set_filter and no draw is in progress.
DrawIdle == [at |-> "idle", img |-> 0, param |-> PlainParam]
SetIdle == [img |-> 0, filter |-> Linear]

IdleThreads ==
    /\ pcSet = "idle"
    /\ argSet = SetIdle
    /\ pcDraw = DrawIdle

NoHarness ==
    /\ tparam = PlainParam
    /\ tdims = <<1, 1>>
    /\ tresult = <<>>

NewSession ==
    /\ GraphicsContext_new
    /\ nBuffers = 0
    /\ images = <<>>
    /\ emitted = <<>>
    /\ gpu = GpuIdle
    /\ nDraws = 0
    /\ result = Ok("GraphicsContext::new", 0, NoArgs)
    /\ panicked = FALSE
    /\ IdleThreads

Init ==
    /\ NewSession
    /\ NoHarness

----------------------------------------------------------------------------
(* GraphicsContext methods.                                                *)

load_font_push_first(font_bytes, font_size) ==
    /\ ~panicked
    /\ Len(fonts_cache) < MaxFonts
    /\ fonts_cache' = Append(fonts_cache, FontTexture(font_bytes, font_size))
    /\ IF FontDecodes(font_bytes)
       THEN /\ nLoads' = nLoads + 1
            /\ result' = Ok("load_font", Len(fonts_cache') - 1,
                            [bytes |-> font_bytes, size |-> font_size])
       ELSE /\ nLoads' = nLoads
            /\ result' = Err("load_font", "font",
                             [bytes |-> font_bytes, size |-> font_size])
    /\ emitted' = <<>>
    /\ UNCHANGED <<screen_rect, projection, ctx_pipelines, gpuVars, images,
                   panicked, concVars, pureVars>>

load_font_dedup(font_bytes, font_size) ==
    /\ ~panicked
    /\ Len(fonts_cache) < MaxFonts
    /\ IF FontDecodes(font_bytes)
       THEN LET font == FontTexture(font_bytes, font_size)
                hit == {k \in 1..Len(fonts_cache) : fonts_cache[k] = font}
                idx == IF hit = {} THEN Len(fonts_cache) + 1
                       ELSE CHOOSE k \in hit : TRUE
            IN  /\ nLoads' = nLoads + 1
                /\ fonts_cache' = IF hit = {} THEN Append(fonts_cache, font)
                                  ELSE fonts_cache
                /\ result' = Ok("load_font", idx - 1,
                                [bytes |-> font_bytes, size |-> font_size])
       ELSE /\ UNCHANGED <<fonts_cache, nLoads>>
            /\ result' = Err("load_font", "font",
                             [bytes |-> font_bytes, size |-> font_size])
    /\ emitted' = <<>>
    /\ UNCHANGED <<screen_rect, projection, ctx_pipelines, gpuVars, images,
                   panicked, concVars, pureVars>>

load_font(font_bytes, font_size) ==
    /\ ~panicked
    /\ Len(fonts_cache) < MaxFonts
    /\ IF FontDecodes(font_bytes)
       THEN /\ fonts_cache' =
                   Append(fonts_cache, FontTexture(font_bytes, font_size))
            /\ nLoads' = nLoads + 1
            /\ result' = Ok("load_font", Len(fonts_cache') - 1,
                            [bytes |-> font_bytes, size |-> font_size])
       ELSE /\ UNCHANGED <<fonts_cache, nLoads>>
            /\ result' = Err("load_font", "font",
                             [bytes |-> font_bytes, size |-> font_size])
    /\ emitted' = <<>>
    /\ UNCHANGED <<screen_rect, projection, ctx_pipelines, gpuVars, images,
                   panicked, concVars, pureVars>>

set_screen_coordinates_no_flip(rect) ==
    /\ ~panicked
    /\ screen_rect' = rect
    /\ projection' = ortho(rect.x, RAdd(rect.x, rect.w),
                           rect.y, RAdd(rect.y, rect.h), R(-1), R(1))
    /\ result' = Ok("set_screen_coordinates", 0, [rect |-> rect])
    /\ emitted' = <<>>
    /\ UNCHANGED <<fonts_cache, ctx_pipelines, nLoads, gpuVars, images,
                   panicked, concVars, pureVars>>

set_screen_coordinates(rect) ==
    /\ ~panicked
    /\ screen_rect' = rect
    /\ projection' = ortho(rect.x, RAdd(rect.x, rect.w),
                           RAdd(rect.y, rect.h), rect.y, R(-1), R(1))
    /\ result' = Ok("set_screen_coordinates", 0, [rect |-> rect])
    /\ emitted' = <<>>
    /\ UNCHANGED <<fonts_cache, ctx_pipelines, nLoads, gpuVars, images,
                   panicked, concVars, pureVars>>

----------------------------------------------------------------------------
(* Image construction.                                                     *)

\* The Image value from_texture returns.  tex_filter is the filter state of
\* the GPU texture (Linear when created).  sets_since_draw (0, 1, or 2 for
\* "two or more") and last_set are history: the set_filter calls made on
\* the Image since its last draw.
Image(width, height, first_buffer, pipeline) ==
    [width |-> width, height |-> height,
     filter |-> Linear, dirty_filter |-> FALSE,
     bindings |-> [vertex_buffers |-> <<first_buffer, first_buffer + 2>>,
                   index_buffer |-> first_buffer + 1],
     pipeline |-> pipeline,
     tex_filter |-> Linear,
     sets_since_draw |-> 0, last_set |-> Linear]

Image_from_texture(width, height) ==
    /\ ~panicked
    /\ Len(images) < MaxImages
    /\ nBuffers' = nBuffers + 3
    /\ nShaders' = nShaders + 1
    /\ nPipelines' = nPipelines + 1
    /\ images' = Append(images,
                        Image(width, height, nBuffers + 1, nPipelines + 1))
    /\ result' = Ok("Image", Len(images) + 1, [bytes |-> "decoded"])
    /\ emitted' = <<>>
    /\ UNCHANGED <<ctxVars, gpu, nDraws, panicked, concVars, pureVars>>

Image_from_rgba8(width, height) ==
    Image_from_texture(width, height)

Image_from_png_bytes(bytes) ==
    IF ImageDecodes(bytes)
    THEN Image_from_rgba8(DecodedDims(bytes)[1], DecodedDims(bytes)[2])
    ELSE /\ ~panicked
         /\ panicked' = TRUE
         /\ result' = Panic("Image", [bytes |-> bytes])
         /\ emitted' = <<>>
         /\ UNCHANGED <<ctxVars, gpuVars, images, concVars, pureVars>>

Image_new(path) ==
    IF FileExists(path)
    THEN Image_from_png_bytes(FileBytes(path))
    ELSE /\ ~panicked
         /\ result' = Err("Image", "filesystem", [bytes |-> "unread"])
         /\ emitted' = <<>>
         /\ UNCHANGED <<ctxVars, gpuVars, images, panicked, concVars,
                        pureVars>>

----------------------------------------------------------------------------
(* Image::set_filter and Image::draw, each as one call on one thread.      *)

Bump(n) == IF n < 2 THEN n + 1 ELSE 2

set_filter_no_flag(i, filter) ==
    /\ ~panicked
    /\ images' = [images EXCEPT ![i].filter = filter,
                                ![i].sets_since_draw = Bump(@),
                                ![i].last_set = filter]
    /\ result' = Ok("set_filter", i, [filter |-> filter])
    /\ emitted' = <<>>
    /\ UNCHANGED <<ctxVars, gpuVars, panicked, concVars, pureVars>>

set_filter(i, filter) ==
    /\ ~panicked
    /\ images' = [images EXCEPT ![i].dirty_filter = TRUE,
                                ![i].filter = filter,
                                ![i].sets_since_draw = Bump(@),
                                ![i].last_set = filter]
    /\ result' = Ok("set_filter", i, [filter |-> filter])
    /\ emitted' = <<>>
    /\ UNCHANGED <<ctxVars, gpuVars, panicked, concVars, pureVars>>

InstanceAttributes(param, transform) ==
    [source |-> <<param.src.x, param.src.y, param.src.w, param.src.h>>,
     color |-> param.color,
     model |-> transform]

Cmd(cmd, arg) == [cmd |-> cmd, arg |-> arg]

\* Texture::set_filter, issued by draw when the flag it read was set.
FilterCommands(dirty, filter) ==
    IF dirty THEN <<Cmd("texture_set_filter", filter)>> ELSE <<>>

\* The quad-context commands of one draw, in the order the source issues them.
DrawCommands(img, instances, proj) ==
    << Cmd("buffer_update", [buffer |-> img.bindings.vertex_buffers[2],
                             data |-> instances]),
       Cmd("begin_pass", "Nothing"),
       Cmd("apply_pipeline", img.pipeline),
       Cmd("apply_bindings", img.bindings),
       Cmd("apply_uniforms", [projection |-> proj]),
       Cmd("draw", <<0, 6, 1>>),
       Cmd("end_render_pass", "none") >>

\* The GPU's counts after the commands cmds.
Received(g, cmds) ==
    LET n(c) == Cardinality({k \in 1..Len(cmds) : cmds[k].cmd = c})
    IN  [buffer_updates |-> g.buffer_updates + n("buffer_update"),
         passes_begun |-> g.passes_begun + n("begin_pass"),
         passes_ended |-> g.passes_ended + n("end_render_pass"),
         clears |-> g.clears
                    + Cardinality({k \in 1..Len(cmds) :
                          cmds[k] = Cmd("begin_pass", "Clear")}),
         draw_calls |-> g.draw_calls + n("draw")]

DrawArgs(param, img) ==
    [param |-> param, sets |-> img.sets_since_draw, last_set |-> img.last_set]

draw_clear_pass(i, param) ==
    /\ ~panicked
    /\ nDraws < MaxDraws
    /\ LET img == images[i]
           transform == param_to_instance_transform(param, img.width, img.height)
           instances == <<InstanceAttributes(param, transform)>>
           cmds == [DrawCommands(img, instances, projection)
                        EXCEPT ![2] = Cmd("begin_pass", "Clear")]
       IN  /\ images' = [images EXCEPT
                  ![i].dirty_filter = FALSE,
                  ![i].tex_filter =
                      IF img.dirty_filter THEN img.filter ELSE img.tex_filter,
                  ![i].sets_since_draw = 0]
           /\ emitted' = FilterCommands(img.dirty_filter, img.filter) \o cmds
           /\ gpu' = Received(gpu, emitted')
           /\ result' = Ok("draw", i, DrawArgs(param, img))
    /\ nDraws' = nDraws + 1
    /\ UNCHANGED <<ctxVars, nShaders, nPipelines, nBuffers, panicked,
                   concVars, pureVars>>

draw_keep_dirty(i, param) ==
    /\ ~panicked
    /\ nDraws < MaxDraws
    /\ LET img == images[i]
           transform == param_to_instance_transform(param, img.width, img.height)
           instances == <<InstanceAttributes(param, transform)>>
           cmds == DrawCommands(img, instances, projection)
       IN  /\ images' = [images EXCEPT
                  ![i].tex_filter =
                      IF img.dirty_filter THEN img.filter ELSE img.tex_filter,
                  ![i].sets_since_draw = 0]
           /\ emitted' = FilterCommands(img.dirty_filter, img.filter) \o cmds
           /\ gpu' = Received(gpu, emitted')
           /\ result' = Ok("draw", i, DrawArgs(param, img))
    /\ nDraws' = nDraws + 1
    /\ UNCHANGED <<ctxVars, nShaders, nPipelines, nBuffers, panicked,
                   concVars, pureVars>>

draw(i, param) ==
    /\ ~panicked
    /\ nDraws < MaxDraws
    /\ LET img == images[i]
           transform == param_to_instance_transform(param, img.width, img.height)
           instances == <<InstanceAttributes(param, transform)>>
           cmds == DrawCommands(img, instances, projection)
       IN  /\ images' = [images EXCEPT
                  ![i].dirty_filter = FALSE,
                  ![i].tex_filter =
                      IF img.dirty_filter THEN img.filter ELSE img.tex_filter,
                  ![i].sets_since_draw = 0]
           /\ emitted' = FilterCommands(img.dirty_filter, img.filter) \o cmds
           /\ gpu' = Received(gpu, emitted')
           /\ result' = Ok("draw", i, DrawArgs(param, img))
    /\ nDraws' = nDraws + 1
    /\ UNCHANGED <<ctxVars, nShaders, nPipelines, nBuffers, panicked,
                   concVars, pureVars>>

----------------------------------------------------------------------------
(* The rendering session on one thread: Images and the screen rectangle.   *)

Next ==
    \/ \E r \in ScreenRects : set_screen_coordinates(r)
    \/ \E p \in Paths : Image_new(p)
    \/ \E b \in ImageBytes : Image_from_png_bytes(b)
    \/ \E d \in RawDims : Image_from_rgba8(d[1], d[2])
    \/ \E d \in RawDims : Image_from_texture(d[1], d[2])
    \/ \E i \in DOMAIN images, f \in FilterMode : set_filter(i, f)
    \/ \E i \in DOMAIN images, p \in DrawParams : draw(i, p)

Spec == Init /\ [][Next]_vars

(* The same session driven with the font loads, and one plain Image.       *)

NextFont ==
    \/ \E b \in FontData, s \in FontSizes : load_font(b, s)
    \/ \E r \in ScreenRects : set_screen_coordinates(r)
    \/ Image_from_rgba8(2, 2)
    \/ \E i \in DOMAIN images : draw(i, PlainParam)

SpecFont == Init /\ [][NextFont]_vars

----------------------------------------------------------------------------
(* set_filter on one thread and draw on the render thread, statement by     *)
(* statement.  DirtyFlag::load and DirtyFlag::store are atomic; the filter  *)
(* field is a plain field, so a read of it that races with set_filter's     *)
(* write yields the old or the new value.                                   *)

set_filter_store(i, filter) ==
    /\ ~panicked
    /\ pcSet = "idle"
    /\ images' = [images EXCEPT ![i].dirty_filter = TRUE,
                                ![i].sets_since_draw = Bump(@),
                                ![i].last_set = filter]
    /\ argSet' = [img |-> i, filter |-> filter]
    /\ pcSet' = "write"
    /\ UNCHANGED <<ctxVars, gpuVars, emitted, result, panicked, pcDraw,
                   pureVars>>

set_filter_write ==
    /\ pcSet = "write"
    /\ images' = [images EXCEPT ![argSet.img].filter = argSet.filter]
    /\ argSet' = SetIdle
    /\ pcSet' = "idle"
    /\ UNCHANGED <<ctxVars, gpuVars, emitted, result, panicked, pcDraw,
                   pureVars>>

draw_load(i, param) ==
    /\ ~panicked
    /\ pcDraw.at = "idle"
    /\ nDraws < MaxDraws
    /\ pcDraw' = [at |-> IF images[i].dirty_filter THEN "store" ELSE "submit",
                  img |-> i, param |-> param]
    /\ images' = [images EXCEPT ![i].sets_since_draw = 0]
    /\ emitted' = <<>>
    /\ result' = Running("draw", i, DrawArgs(param, images[i]))
    /\ UNCHANGED <<ctxVars, gpuVars, panicked, pcSet, argSet, pureVars>>

draw_store ==
    /\ pcDraw.at = "store"
    /\ images' = [images EXCEPT ![pcDraw.img].dirty_filter = FALSE]
    /\ pcDraw' = [pcDraw EXCEPT !.at = "apply"]
    /\ UNCHANGED <<ctxVars, gpuVars, emitted, result, panicked, pcSet, argSet,
                   pureVars>>

FilterRead(i) ==
    IF pcSet = "write" /\ argSet.img = i
    THEN {images[i].filter, argSet.filter}
    ELSE {images[i].filter}

draw_apply ==
    /\ pcDraw.at = "apply"
    /\ \E f \in FilterRead(pcDraw.img) :
          /\ images' = [images EXCEPT ![pcDraw.img].tex_filter = f]
          /\ emitted' = Append(emitted, Cmd("texture_set_filter", f))
    /\ pcDraw' = [pcDraw EXCEPT !.at = "submit"]
    /\ UNCHANGED <<ctxVars, gpuVars, result, panicked, pcSet, argSet,
                   pureVars>>

draw_submit ==
    /\ pcDraw.at = "submit"
    /\ LET img == images[pcDraw.img]
           transform == param_to_instance_transform(pcDraw.param, img.width,
                                                    img.height)
           instances == <<InstanceAttributes(pcDraw.param, transform)>>
       IN  emitted' = emitted \o DrawCommands(img, instances, projection)
    /\ gpu' = Received(gpu, emitted')
    /\ nDraws' = nDraws + 1
    /\ result' = [result EXCEPT !.status = "ok"]
    /\ pcDraw' = DrawIdle
    /\ UNCHANGED <<ctxVars, nShaders, nPipelines, nBuffers, images, panicked,
                   pcSet, argSet, pureVars>>

NextConc ==
    \/ Image_from_rgba8(2, 2)
    \/ \E i \in DOMAIN images, f \in FilterMode : set_filter_store(i, f)
    \/ set_filter_write
    \/ \E i \in DOMAIN images : draw_load(i, PlainParam)
    \/ draw_store
    \/ draw_apply
    \/ draw_submit

SpecConc == Init /\ [][NextConc]_vars

----------------------------------------------------------------------------
(* param_to_instance_transform applied to one DrawParam and image size.    *)

TestParams ==
    { DrawParam(<<dx, dy>>, Rect(R(0), R(0), sw, sh), <<kx, ky>>, q,
                <<ox, oy>>, White) :
        dx \in {R(0), R(10), <<-5, 2>>}, dy \in {R(10), R(-1)},
        sw \in {Half, R(1)}, sh \in {R(0), R(1)},
        kx \in {R(1), R(2), <<-1, 2>>}, ky \in {R(1), Half},
        q \in 0..3,
        ox \in {R(0), Half, R(1)}, oy \in {R(0), Half} }

InitTransform ==
    /\ NewSession
    /\ tparam \in TestParams
    /\ tdims \in (1..MaxDim) \X (1..MaxDim)
    /\ tresult = <<>>

Transform ==
    /\ tresult = <<>>
    /\ tresult' = param_to_instance_transform(tparam, tdims[1], tdims[2])
    /\ UNCHANGED <<ctxVars, gpuVars, images, emitted, result, panicked,
                   concVars, tparam, tdims>>

SpecTransform == InitTransform /\ [][Transform]_vars

----------------------------------------------------------------------------
(* set_screen_coordinates over a grid of screen rectangles.                *)

GridRects ==
    { Rect(R(x), R(y), R(w), R(h)) :
        x \in (-MaxOrigin)..MaxOrigin, y \in (-MaxOrigin)..MaxOrigin,
        w \in 1..MaxExtent, h \in 1..MaxExtent }

NextScreen == \E r \in GridRects : set_screen_coordinates(r)

SpecScreen == Init /\ [][NextScreen]_vars

----------------------------------------------------------------------------
(* Properties.                                                             *)

\* The Texture::set_filter commands, and the quad-context commands, of a
\* command sequence.
IsFilterCmd(c) == c.cmd = "texture_set_filter"
IsQuadCmd(c) == c.cmd # "texture_set_filter"
FilterCmdsOf(cmds) == SelectSeq(cmds, IsFilterCmd)
QuadCmdsOf(cmds) == SelectSeq(cmds, IsQuadCmd)

DrawReturned == result.op = "draw" /\ result.status = "ok"

(* C1.  Single-threaded set_filter / draw on one Image: set_filter applies  *)
(* no filter to the texture; a draw applies the filter exactly once when at *)
(* least one set_filter was called since the previous draw (or creation)    *)
(* and not at all otherwise; the filter applied is the one most recently    *)
(* set; and the texture's filter changes at no other moment.                *)
C1_AfterCall ==
    /\ result.op = "set_filter" => emitted = <<>>
    /\ DrawReturned =>
          LET applied == FilterCmdsOf(emitted)
          IN  /\ Len(applied) = IF result.args.sets > 0 THEN 1 ELSE 0
              /\ result.args.sets > 0 =>
                    /\ applied[1].arg = result.args.last_set
                    /\ images[result.val].tex_filter = result.args.last_set

C1_TexFilterStep ==
    \A i \in DOMAIN images :
        images'[i].tex_filter # images[i].tex_filter =>
            /\ result'.op = "draw"
            /\ result'.val = i
            /\ images[i].sets_since_draw > 0

\* C1: C1_AfterCall holds after every call and C1_TexFilterStep at every
\* step: one filter-apply per draw that follows a set_filter, none otherwise.
C1_FilterAppliedOncePerChange ==
    [] C1_AfterCall /\ [][C1_TexFilterStep]_vars

C1_Witness ==
    /\ DrawReturned
    /\ result.args.sets = 2
    /\ result.args.last_set = Nearest
    /\ FilterCmdsOf(emitted) = <<Cmd("texture_set_filter", Nearest)>>
    /\ images[result.val].tex_filter = Nearest

(* C2.  The pipelines are built once, by GraphicsContext::new: afterwards   *)
(* no shader or pipeline is created, three pipelines exist, and every       *)
(* Image's pipeline is one of the context's three.                          *)
C2_PipelinesBuiltOnce ==
    /\ nShaders = 3
    /\ nPipelines = 3
    /\ \A i \in DOMAIN images :
          images[i].pipeline \in {ctx_pipelines.sprite, ctx_pipelines.image,
                                  ctx_pipelines.mesh}

(* C3.  The font cache starts as the default font at index 0; the n-th      *)
(* successful load_font returns n whatever its bytes; the cache is          *)
(* append-only and its length is 1 + the number of successful loads.        *)
C3_AfterCall ==
    /\ fonts_cache[1] = DefaultFont
    /\ Len(fonts_cache) = 1 + nLoads
    /\ (result.op = "load_font" /\ result.status = "ok") =>
          /\ result.val = nLoads
          /\ fonts_cache[result.val + 1] =
                 FontTexture(result.args.bytes, result.args.size)

C3_CacheStep ==
    \A k \in 1..Len(fonts_cache) :
        /\ k <= Len(fonts_cache')
        /\ fonts_cache'[k] = fonts_cache[k]

\* C3: C3_AfterCall holds after every call and C3_CacheStep at every step:
\* handles are 1, 2, ... in load order and stored entries never change.
C3_FontHandlesAppendOnly ==
    [] C3_AfterCall /\ [][C3_CacheStep]_vars

C3_Witness ==
    /\ result.op = "load_font"
    /\ result.status = "ok"
    /\ result.val = 2
    /\ Len(fonts_cache) = 3
    /\ fonts_cache[2] = fonts_cache[3]

(* C4.  Constructing an Image from a malformed byte stream returns a typed  *)
(* decode error to the caller and never panics.                             *)
C4_DecodeFailureIsTyped ==
    /\ ~panicked
    /\ (result.op = "Image" /\ result.args.bytes \in ImageBytes
            /\ ~ImageDecodes(result.args.bytes)) =>
          (result.status = "err" /\ result.err = "decode")

(* C5.  load_font on malformed font data returns the font-decode error and  *)
(* leaves the GraphicsContext as it was; a later successful load returns    *)
(* the next consecutive index.                                              *)
C5_AfterCall ==
    (result.op = "load_font" /\ ~FontDecodes(result.args.bytes)) =>
        (result.status = "err" /\ result.err = "font")

C5_LoadStep ==
    /\ (result'.op = "load_font" /\ result'.status = "err") =>
          UNCHANGED <<ctxVars, gpuVars, images, panicked>>
    /\ (result'.op = "load_font" /\ result'.status = "ok") =>
          /\ result'.val = Len(fonts_cache)
          /\ Len(fonts_cache') = Len(fonts_cache) + 1

\* C5: a failed load_font returns the font error and changes nothing; a
\* successful one returns the length the cache had.
C5_FailedLoadChangesNothing ==
    [] C5_AfterCall /\ [][C5_LoadStep]_vars

C5_Witness ==
    /\ result.op = "load_font"
    /\ result.status = "err"
    /\ result.args.bytes = "garbage"
    /\ Len(fonts_cache) = 2
    /\ nLoads = 1

Point(x, y) == <<x, y, R(0), R(1)>>
RealSize(param, dims) ==
    <<RMul(param.src.w, R(dims[1])), RMul(param.src.h, R(dims[2]))>>
Size(param, dims) ==
    <<RMul(RealSize(param, dims)[1], param.scale[1]),
      RMul(RealSize(param, dims)[2], param.scale[2])>>
TopLeft(param, dims) ==
    <<RSub(param.dest[1],
           RMul(RMul(RealSize(param, dims)[1], param.offset[1]),
                param.scale[1])),
      RSub(param.dest[2],
           RMul(RMul(RealSize(param, dims)[2], param.offset[2]),
                param.scale[2]))>>

\* C7: with rotation 0, corner (0,0) goes to dest' and (1,1) to dest' + size.
C7_UnrotatedRect ==
    (tresult # <<>> /\ tparam.rotation = 0) =>
        LET tl == TopLeft(tparam, tdims)
            sz == Size(tparam, tdims)
            rs == RealSize(tparam, tdims)
        IN  /\ Apply(tresult, R(0), R(0)) = Point(tl[1], tl[2])
            /\ Apply(tresult, R(1), R(1)) =
                   Point(RAdd(tl[1], sz[1]), RAdd(tl[2], sz[2]))
            /\ (tparam.scale = <<R(1), R(1)>>
                    /\ tparam.offset = <<R(0), R(0)>>) =>
                  /\ Apply(tresult, R(0), R(0)) =
                         Point(tparam.dest[1], tparam.dest[2])
                  /\ Apply(tresult, R(1), R(1)) =
                         Point(RAdd(tparam.dest[1], rs[1]),
                               RAdd(tparam.dest[2], rs[2]))
            /\ tparam.offset = <<Half, Half>> =>
                  Apply(tresult, R(0), R(0)) =
                      Point(RSub(tparam.dest[1], RMul(sz[1], Half)),
                            RSub(tparam.dest[2], RMul(sz[2], Half)))
            /\ (tparam.dest = <<R(10), R(10)>> /\ tdims = <<2, 2>>
                    /\ tparam.src.w = R(1) /\ tparam.src.h = R(1)
                    /\ tparam.scale = <<R(1), R(1)>>
                    /\ tparam.offset = <<R(0), R(0)>>) =>
                  /\ Apply(tresult, R(0), R(0)) = Point(R(10), R(10))
                  /\ Apply(tresult, R(1), R(1)) = Point(R(12), R(12))
                  /\ Apply(tresult, Half, Half) = Point(R(11), R(11))

C7_Witness ==
    /\ tresult # <<>>
    /\ tparam.rotation = 0
    /\ tparam.dest = <<R(10), R(10)>>
    /\ tdims = <<2, 2>>
    /\ tparam.src.w = R(1) /\ tparam.src.h = R(1)
    /\ tparam.scale = <<R(1), R(1)>>
    /\ tparam.offset = <<R(0), R(0)>>
    /\ Apply(tresult, Half, Half) = Point(R(11), R(11))

(* C8.  The matrix is Translate(dest' + size/2) * RotateZ(rotation) *       *)
(* Translate(-size/2) * Scale(size): for every rotation (whole quarter      *)
(* turns) the quad centre (1/2,1/2) goes to dest' + size/2, and each quad   *)
(* corner goes to its rotation-0 position rotated about that centre.        *)
Turn(q, v) ==
    CASE q % 4 = 0 -> v
      [] q % 4 = 1 -> <<RNeg(v[2]), v[1]>>
      [] q % 4 = 2 -> <<RNeg(v[1]), RNeg(v[2])>>
      [] OTHER -> <<v[2], RNeg(v[1])>>

\* C8: the matrix is the stated product and rotation pivots at the centre
\* dest' + size/2 of the drawn rect.
C8_RotatesAboutCentre ==
    tresult # <<>> =>
        LET tl == TopLeft(tparam, tdims)
            sz == Size(tparam, tdims)
            hx == RMul(sz[1], Half)
            hy == RMul(sz[2], Half)
            cx == RAdd(tl[1], hx)
            cy == RAdd(tl[2], hy)
        IN  /\ tresult =
                   MatMul(from_translation(cx, cy, R(0)),
                       MatMul(from_angle_z(tparam.rotation),
                           MatMul(from_translation(RNeg(hx), RNeg(hy), R(0)),
                                  from_nonuniform_scale(sz[1], sz[2], R(0)))))
            /\ Apply(tresult, Half, Half) = Point(cx, cy)
            /\ \A u \in {0, 1}, v \in {0, 1} :
                  LET arm == Turn(tparam.rotation,
                                  <<RSub(RMul(R(u), sz[1]), hx),
                                    RSub(RMul(R(v), sz[2]), hy)>>)
                  IN  Apply(tresult, R(u), R(v)) =
                          Point(RAdd(cx, arm[1]), RAdd(cy, arm[2]))

C8_Witness ==
    /\ tresult # <<>>
    /\ tparam.rotation = 1
    /\ tparam.offset = <<R(1), Half>>
    /\ tparam.scale = <<R(2), Half>>
    /\ tparam.dest = <<R(10), R(10)>>
    /\ tdims = <<2, 2>>
    /\ tparam.src.w = R(1) /\ tparam.src.h = R(1)
    /\ Apply(tresult, Half, Half) = Point(R(8), R(10))

(* C9.  After set_screen_coordinates(rect), w > 0 and h > 0, screen_rect is *)
(* rect and the projection maps x to -1, x+w to +1, y to +1 and y+h to -1,  *)
(* with the near/far planes at -1/1.                                        *)
Clip(M, x, y) == <<Apply(M, x, y)[1], Apply(M, x, y)[2], Apply(M, x, y)[4]>>

\* C9: the rect corners go to the clip-space corners, Y flipped.
C9_RectCornersToClipCorners ==
    result.op = "set_screen_coordinates" =>
        LET r == result.args.rect
            x1 == RAdd(r.x, r.w)
            y1 == RAdd(r.y, r.h)
        IN  /\ screen_rect = r
            /\ Clip(projection, r.x, r.y) = <<R(-1), R(1), R(1)>>
            /\ Clip(projection, x1, r.y) = <<R(1), R(1), R(1)>>
            /\ Clip(projection, r.x, y1) = <<R(-1), R(-1), R(1)>>
            /\ Clip(projection, x1, y1) = <<R(1), R(-1), R(1)>>
            /\ projection[3] = <<R(0), R(0), R(-1), R(0)>>
            /\ projection[4] = <<R(0), R(0), R(0), R(1)>>

C9_Witness ==
    /\ result.op = "set_screen_coordinates"
    /\ screen_rect = Rect(R(-2), R(1), R(3), R(2))
    /\ Clip(projection, R(-2), R(1)) = <<R(-1), R(1), R(1)>>
    /\ Clip(projection, R(1), R(3)) = <<R(1), R(-1), R(1)>>

(* C10.  Every draw issues, in order and once each: the upload of one       *)
(* InstanceAttributes record of this call's DrawParam, begin pass without   *)
(* clear, apply the Image's pipeline, apply its bindings, apply the         *)
(* context's projection as uniform, draw 6 indices / 1 instance, end pass;  *)
(* no pass stays open, nothing is cleared, and n draws make n uploads and   *)
(* n draw calls.                                                            *)
C10_DrawIssuesOnePass ==
    /\ gpu.buffer_updates = nDraws
    /\ gpu.draw_calls = nDraws
    /\ gpu.passes_begun = nDraws
    /\ gpu.passes_ended = gpu.passes_begun
    /\ gpu.clears = 0
    /\ DrawReturned =>
          LET img == images[result.val]
              p == result.args.param
              record == [source |-> <<p.src.x, p.src.y, p.src.w, p.src.h>>,
                         color |-> p.color,
                         model |-> param_to_instance_transform(
                                       p, img.width, img.height)]
          IN  QuadCmdsOf(emitted) =
                << Cmd("buffer_update",
                       [buffer |-> img.bindings.vertex_buffers[2],
                        data |-> <<record>>]),
                   Cmd("begin_pass", "Nothing"),
                   Cmd("apply_pipeline", img.pipeline),
                   Cmd("apply_bindings", img.bindings),
                   Cmd("apply_uniforms", [projection |-> projection]),
                   Cmd("draw", <<0, 6, 1>>),
                   Cmd("end_render_pass", "none") >>

C10_Witness ==
    /\ DrawReturned
    /\ nDraws = 2
    /\ gpu.draw_calls = 2
    /\ projection # Matrix4One
    /\ result.args.param # PlainParam

(* C11.  In every reachable state, the state right after construction      *)
(* included, the projection is the Y-flipped orthographic projection of    *)
(* the stored screen_rect (x -> -1, x+w -> +1, y -> +1, y+h -> -1), so a    *)
(* draw always uses the projection of the current screen_rect.             *)

\* The projection set_screen_coordinates derives from a rect.
ProjectionOf(rect) ==
    ortho(rect.x, RAdd(rect.x, rect.w),
          RAdd(rect.y, rect.h), rect.y, R(-1), R(1))

\* C11: the projection is always the Y-flipped ortho of screen_rect, and the
\* uniform a draw has just applied is that projection.
C11_ProjectionMatchesScreenRect ==
    /\ projection = ProjectionOf(screen_rect)
    /\ Clip(projection, screen_rect.x, screen_rect.y)
           = <<R(-1), R(1), R(1)>>
    /\ DrawReturned =>
          \E k \in DOMAIN emitted :
              emitted[k] = Cmd("apply_uniforms",
                               [projection |-> ProjectionOf(screen_rect)])

\* The part of C11 that the code does keep: only set_screen_coordinates
\* writes screen_rect or projection, and it writes them together.
C11_OnlySetScreenCoordinatesWrites ==
    [][ /\ (screen_rect' # screen_rect \/ projection' # projection)
            => /\ result'.op = "set_screen_coordinates"
               /\ projection' = ProjectionOf(screen_rect')
        /\ result'.op \in {"load_font", "draw"}
            => UNCHANGED <<screen_rect, projection>> ]_vars

\* A draw issued before any set_screen_coordinates: the uniform is the
\* identity, which leaves the top of screen_rect at the bottom of clip space.
C11_DrawBeforeSetScreenCoordinates ==
    /\ DrawReturned
    /\ screen_rect = Rect(R(-1), R(-1), R(2), R(2))
    /\ projection = Matrix4One
    /\ Clip(projection, screen_rect.x, screen_rect.y)
           = <<R(-1), R(-1), R(1)>>

====
